---- MODULE Spec2Model ----
(***************************************************************************)
(* Model of the playback orchestrator of the RSVP reader (src/App.svelte), *)
(* with the position mapper (src/lib/content-utils.js) and the periodic    *)
(* pause rule (src/lib/rsvp-utils.js).                                     *)
(*                                                                         *)
(* The word stream is modelled by its length: the orchestrator reads the   *)
(* tokens only to compute step delays, and a delay only decides WHEN a     *)
(* timer fires.  Timers are modelled as pending callbacks that fire in any *)
(* order.  A timer handle (intervalId, rewindHoldTimeout) is "null",       *)
(* "live" (its callback is pending) or "fired" (the handle is still        *)
(* truthy but its callback has run).  Callbacks whose handle was           *)
(* overwritten or never kept are counted (stepOrphans, pauseTimers,        *)
(* imageTimers, speedUpdateIntervals).                                     *)
(*                                                                         *)
(* Not modelled: the fade timer and wordOpacity, progress (a display value *)
(* derived from currentWordIndex), the panel flags (a panel is usable      *)
(* exactly when the app is not in focus mode), and the contents of the     *)
(* session store: saveCurrentSession is assumed to return normally, and    *)
(* the session found at mount is drawn from the sessions a run can save.   *)
(***************************************************************************)
EXTENDS Integers, Sequences, FiniteSets, TLC

\* ---------------------------------------------------------------- bounds
MaxWords == 3
MaxPending == 1
\* user operations in one run
MaxOps == 3

\* ---------------------------------------------------------------- values
Null == -1

\* the values of the "pause every N words" setting offered (0 = disabled)
PauseIntervals == {0, 2}

ScrollPercents == {0, 50, 100}

RECURSIVE Gcd(_, _)
Gcd(a, b) == IF b = 0 THEN a ELSE Gcd(b, a % b)

\* a non-negative rational num/den in lowest terms
Frac(num, den) ==
  LET g == Gcd(num, den) IN
  IF g = 0 THEN <<0, 1>> ELSE <<num \div g, den \div g>>

\* --------------------------------------------------- word stream builder
\* A text is a sequence of characters; a token is a sequence of characters.
\* the characters texts are made of: a letter, a blank and a line break
Chars == {"a", " ", "\n"}

\* the token pushed between paragraphs
BreakToken == <<"\n">>

\* the character put in front of the first word after a break; it stands
\* for U+27E9, which the module's character set does not have
BreakMarker == ">"

RECURSIVE split(_, _)
\* text.split(sep) for a separator of one character
split(text, sep) ==
  LET hits == { i \in 1..Len(text) : text[i] = sep } IN
  IF hits = {} THEN <<text>>
  ELSE LET i == CHOOSE h \in hits : \A g \in hits : h <= g
       IN <<SubSeq(text, 1, i - 1)>> \o split(SubSeq(text, i + 1, Len(text)), sep)

RECURSIVE lineWordsOf(_)
\* line.trim().split(/\s+/).filter(w => w.length > 0): the runs of
\* characters that are not blank
lineWordsOf(line) ==
  IF line = <<>> THEN <<>>
  ELSE IF Head(line) = " " THEN lineWordsOf(Tail(line))
  ELSE LET blanks == { i \in 1..Len(line) : line[i] = " " } IN
       IF blanks = {} THEN <<line>>
       ELSE LET i == CHOOSE h \in blanks : \A g \in blanks : h <= g
            IN <<SubSeq(line, 1, i - 1)>> \o lineWordsOf(SubSeq(line, i, Len(line)))

RECURSIVE pushLines(_, _)
\* the loop of parseText over the lines not yet read
pushLines(words, lines) ==
  IF lines = <<>> THEN words
  ELSE LET lineWords == lineWordsOf(Head(lines)) IN
       IF lineWords = <<>> THEN pushLines(words, Tail(lines))
       ELSE IF words # <<>>
       THEN pushLines(words \o <<BreakToken>>
                        \o <<(<<BreakMarker>> \o Head(lineWords))>>
                        \o Tail(lineWords),
                      Tail(lines))
       ELSE pushLines(lineWords, Tail(lines))

\* variant: a text ending in a line break ends in a break token
parseText_trailingBreak(text) ==
  IF text = <<>> THEN <<>>
  ELSE pushLines(<<>>, split(text, "\n"))
       \o (IF text[Len(text)] = "\n" THEN <<BreakToken>> ELSE <<>>)

parseText(text) == IF text = <<>> THEN <<>> ELSE pushLines(<<>>, split(text, "\n"))

RECURSIVE join(_, _)
\* parts.join(sep)
join(parts, sep) ==
  IF parts = <<>> THEN <<>>
  ELSE IF Len(parts) = 1 THEN parts[1]
  ELSE parts[1] \o sep \o join(Tail(parts), sep)

\* array.slice(from, to) with 0-based bounds
slice(array, from, to) ==
  IF from >= to THEN <<>>
  ELSE SubSeq(array, from + 1, IF to > Len(array) THEN Len(array) ELSE to)

\* ------------------------------------------------- documents (parsers)
NoStructure ==
  [present |-> FALSE, chapters |-> <<>>, toc |-> <<>>,
   hasStructure |-> FALSE, images |-> <<>>]

RECURSIVE SumCounts(_, _)
SumCounts(chs, k) == IF k = 0 THEN 0 ELSE SumCounts(chs, k - 1) + chs[k].wordCount

\* chapter i of the input starts where the chapters before it end
buildWordBoundaries(chs) ==
  [i \in 1..Len(chs) |->
     [startWordIndex |-> SumCounts(chs, i - 1),
      endWordIndex   |-> SumCounts(chs, i - 1) + chs[i].wordCount,
      wordCount      |-> chs[i].wordCount]]

RECURSIVE globalImages(_, _)
globalImages(chs, k) ==
  IF k = 0 THEN <<>>
  ELSE globalImages(chs, k - 1) \o
       [j \in 1..Len(chs[k].images) |->
          [wordPosition |-> SumCounts(chs, k - 1) + chs[k].images[j].wordPosition,
           unavailable  |-> chs[k].images[j].unavailable]]

flattenTOC(chapters) ==
  [i \in 1..Len(chapters) |->
     [chapterIndex |-> i - 1,
      wordCount |-> chapters[i].wordCount,
      startWordIndex |-> chapters[i].startWordIndex]]

\* the result of parseFile for a book given as its chapters
parseEPUBWithStructure(chs) ==
  [words |-> SumCounts(chs, Len(chs)),
   contentStructure |->
     [present |-> TRUE,
      chapters |-> buildWordBoundaries(chs),
      toc |-> flattenTOC(buildWordBoundaries(chs)),
      hasStructure |-> TRUE,
      images |-> globalImages(chs, Len(chs))]]

Img(p, u) == [wordPosition |-> p, unavailable |-> u]
Chap(n, imgs) == [wordCount |-> n, images |-> imgs]

\* the books offered to handleFileSelect
Books ==
  { <<Chap(1, <<>>), Chap(MaxWords - 1, <<Img(0, TRUE)>>)>>,
    <<Chap(MaxWords, <<Img(1, FALSE)>>)>>,
    <<Chap(MaxWords - 1, <<>>), Chap(1, <<>>)>> }

Files == { parseEPUBWithStructure(b) : b \in Books }

\* ------------------------------------------------------ PDF structurer
\* A PDF is given as the trimmed text of its pages and as its outline: the
\* page number getOutlinePageNumber resolves each top-level entry to (1 when
\* the destination cannot be resolved), <<>> when there is no outline.
ParagraphGap == <<"\n", "\n">>

PdfChapter(text) == [plainText |-> text]

RECURSIVE outlineChapters(_, _, _)
\* the loop of buildChaptersFromOutline from entry i on
outlineChapters(outline, pageTexts, i) ==
  IF i > Len(outline) THEN <<>>
  ELSE LET pageNum == outline[i]
           nextPageNum == IF i < Len(outline) THEN outline[i + 1]
                          ELSE Len(pageTexts) + 1
       IN <<PdfChapter(join(slice(pageTexts, pageNum - 1, nextPageNum - 1),
                            ParagraphGap))>>
          \o outlineChapters(outline, pageTexts, i + 1)

buildChaptersFromOutline(outline, pageTexts) ==
  LET firstOutlinePageNum == outline[1] IN
  (IF firstOutlinePageNum > 1
   THEN <<PdfChapter(join(slice(pageTexts, 0, firstOutlinePageNum - 1),
                          ParagraphGap))>>
   ELSE <<>>)
  \o outlineChapters(outline, pageTexts, 1)

RECURSIVE pageChunks(_, _, _)
\* the loop of buildPageBasedChapters from page index i on
pageChunks(pageTexts, chunkSize, i) ==
  IF i >= Len(pageTexts) THEN <<>>
  ELSE LET endIdx == IF i + chunkSize < Len(pageTexts) THEN i + chunkSize
                     ELSE Len(pageTexts)
       IN <<PdfChapter(join(slice(pageTexts, i, endIdx), ParagraphGap))>>
          \o pageChunks(pageTexts, chunkSize, i + chunkSize)

buildPageBasedChapters(pageTexts) ==
  LET n == Len(pageTexts)
      parts == IF n \div 10 > 1 THEN n \div 10 ELSE 1
      chunkSize == (n + parts - 1) \div parts
  IN pageChunks(pageTexts, chunkSize, 0)

RECURSIVE SumWords(_, _)
\* the running offset of calculateWordBoundaries after k chapters
SumWords(chapters, k) ==
  IF k = 0 THEN 0
  ELSE SumWords(chapters, k - 1) + Len(parseText(chapters[k].plainText))

\* variant: every chapter is counted from 0
calculateWordBoundaries_fromZero(chapters) ==
  [i \in 1..Len(chapters) |->
     [startWordIndex |-> 0,
      endWordIndex   |-> Len(parseText(chapters[i].plainText)),
      wordCount      |-> Len(parseText(chapters[i].plainText))]]

calculateWordBoundaries(chapters) ==
  [i \in 1..Len(chapters) |->
     [startWordIndex |-> SumWords(chapters, i - 1),
      endWordIndex   |-> SumWords(chapters, i),
      wordCount      |-> Len(parseText(chapters[i].plainText))]]

\* the entries carry no startWordIndex and no wordCount
buildTOCFromChapters(chapters) ==
  [i \in 1..Len(chapters) |-> [chapterIndex |-> i - 1]]

parsePDFWithStructure(pageTexts, outline) ==
  LET chapters == IF outline # <<>>
                  THEN buildChaptersFromOutline(outline, pageTexts)
                  ELSE buildPageBasedChapters(pageTexts)
  IN [words |-> Len(parseText(join(pageTexts, ParagraphGap))),
      text |-> join(pageTexts, ParagraphGap),
      tokens |-> parseText(join(pageTexts, ParagraphGap)),
      contentStructure |->
        [present |-> TRUE,
         chapters |-> calculateWordBoundaries(chapters),
         toc |-> buildTOCFromChapters(chapters),
         hasStructure |-> outline # <<>>,
         images |-> <<>>]]

\* ----------------------------------------------------- EPUB structurer
\* A spine section as extractChapters finds it: whether it has an href,
\* whether book.load(href) succeeds, whether the outline has an entry for
\* its href, and the plain text of its body.
Section(hasHref, loads, inToc, text) ==
  [hasHref |-> hasHref, loads |-> loads, inToc |-> inToc, plainText |-> text]

RECURSIVE spineChapters(_, _)
\* the loop of extractChapters from spine item i on
spineChapters(spineItems, i) ==
  IF i > Len(spineItems) THEN <<>>
  ELSE LET item == spineItems[i] IN
       IF ~item.hasHref THEN spineChapters(spineItems, i + 1)
       ELSE IF ~item.loads THEN spineChapters(spineItems, i + 1)
       ELSE <<[spineIndex |-> i,
               title |-> IF item.inToc THEN <<"toc", i>> ELSE <<"Chapter", i>>,
               plainText |-> item.plainText]>>
            \o spineChapters(spineItems, i + 1)

extractChapters(spineItems) == spineChapters(spineItems, 1)

RECURSIVE allWords(_)
\* the words buildWordBoundaries collects: the tokens of each chapter's text,
\* one chapter after the other
allWords(chapters) ==
  IF chapters = <<>> THEN <<>>
  ELSE parseText(Head(chapters).plainText) \o allWords(Tail(chapters))

\* the structure parseEPUBWithStructure builds for a spine
parseEPUBSpine(spineItems) ==
  LET chapters == extractChapters(spineItems)
      result == parseEPUBWithStructure(
                  [i \in 1..Len(chapters) |->
                     Chap(Len(parseText(chapters[i].plainText)), <<>>)])
  IN [words |-> result.words,
      text |-> join(allWords(chapters), <<" ">>),
      tokens |-> allWords(chapters),
      contentStructure |-> result.contentStructure,
      extracted |-> chapters]

\* ------------------------------------------------------ position mapper
\* variant: the chapter is numbered from 1
getChapterAtWordIndex_oneBased(cs, wordIndex) ==
  IF ~cs.present THEN 0
  ELSE LET hits == { i \in 1..Len(cs.chapters) :
                       /\ wordIndex >= cs.chapters[i].startWordIndex
                       /\ wordIndex < cs.chapters[i].endWordIndex }
       IN IF hits = {} THEN 0
          ELSE CHOOSE i \in hits : \A j \in hits : i <= j

\* 0-based chapter index, 0 when no chapter contains the index
getChapterAtWordIndex(cs, wordIndex) ==
  IF ~cs.present THEN 0
  ELSE LET hits == { i \in 1..Len(cs.chapters) :
                       /\ wordIndex >= cs.chapters[i].startWordIndex
                       /\ wordIndex < cs.chapters[i].endWordIndex }
       IN IF hits = {} THEN 0
          ELSE (CHOOSE i \in hits : \A j \in hits : i <= j) - 1

getScrollPercentageInChapter(chapter, wordIndex) ==
  LET offset == wordIndex - chapter.startWordIndex
      total  == chapter.endWordIndex - chapter.startWordIndex
  IN IF total = 0 THEN <<0, 1>> ELSE Frac(offset * 100, total)

\* scrollPercentage is a rational <<num, den>>
getWordIndexFromScroll(chapter, scrollPercentage) ==
  LET chapterWordCount == chapter.endWordIndex - chapter.startWordIndex
      offset == (chapterWordCount * scrollPercentage[1]) \div (scrollPercentage[2] * 100)
  IN chapter.startWordIndex + offset

\* --------------------------------------------------------- word delay
\* A number as JavaScript's division yields it: a rational, or Infinity
Finite(num, den) ==
  [kind |-> "finite",
   value |-> IF num >= 0 THEN Frac(num, den)
             ELSE <<0 - Frac(0 - num, den)[1], Frac(0 - num, den)[2]>>]

\* a / b for integers
divide(a, b) ==
  IF b = 0 THEN [kind |-> IF a = 0 THEN "NaN" ELSE "Infinity", value |-> <<0, 1>>]
  ELSE IF b > 0 THEN Finite(a, b)
  ELSE Finite(0 - a, 0 - b)

\* x * (num / den) for a finite x and a positive factor
times(x, num, den) == Finite(x.value[1] * num, x.value[2] * den)

\* a word argument: undefined, or a string given by its characters
Word(chars) == [defined |-> TRUE, chars |-> chars]
NoWord == [defined |-> FALSE, chars |-> <<>>]

SentenceEnd == {".", "!", "?", ";", ":"}

FallbackDelay == 200

\* variant: the adjustments are added to the base delay, not multiplied
getWordDelay_additive(word, wordsPerMinute, pauseOnPunctuation, punctuationMultiplier, wordLengthWPMMultiplier, lineBreakMultiplier) ==
  IF ~word.defined \/ word.chars = <<>> THEN divide(60000, wordsPerMinute)
  ELSE IF wordsPerMinute <= 0 THEN Finite(FallbackDelay, 1)
  ELSE IF word.chars = BreakToken
  THEN times(divide(60000, wordsPerMinute), lineBreakMultiplier, 1)
  ELSE
    LET isFirstAfterBreak == Head(word.chars) = BreakMarker
        cleanWord == IF isFirstAfterBreak THEN Tail(word.chars) ELSE word.chars
        last == IF cleanWord = <<>> THEN "" ELSE cleanWord[Len(cleanWord)]
        \* the sum of the factors, in hundredths, each counted beyond 1
        extra == (IF isFirstAfterBreak THEN 50 ELSE 0)
                 + (IF wordLengthWPMMultiplier > 0 /\ Len(cleanWord) >= 12
                    THEN wordLengthWPMMultiplier * (Len(cleanWord) - 12) ELSE 0)
                 + (IF pauseOnPunctuation /\ last \in SentenceEnd
                    THEN 100 * (punctuationMultiplier - 1)
                    ELSE IF pauseOnPunctuation /\ last = "," THEN 50 ELSE 0)
    IN times(divide(60000, wordsPerMinute), 100 + extra, 100)

getWordDelay(word, wordsPerMinute, pauseOnPunctuation, punctuationMultiplier, wordLengthWPMMultiplier, lineBreakMultiplier) ==
  IF ~word.defined \/ word.chars = <<>> THEN divide(60000, wordsPerMinute)
  ELSE IF wordsPerMinute <= 0 THEN Finite(FallbackDelay, 1)
  ELSE IF word.chars = BreakToken
  THEN times(divide(60000, wordsPerMinute), lineBreakMultiplier, 1)
  ELSE
    LET isFirstAfterBreak == Head(word.chars) = BreakMarker
        cleanWord == IF isFirstAfterBreak THEN Tail(word.chars) ELSE word.chars
        base0 == divide(60000, wordsPerMinute)
        base1 == IF isFirstAfterBreak THEN times(base0, 3, 2) ELSE base0
        base2 == IF wordLengthWPMMultiplier > 0 /\ Len(cleanWord) >= 12
                 THEN times(base1,
                            100 + wordLengthWPMMultiplier * (Len(cleanWord) - 12),
                            100)
                 ELSE base1
        last == IF cleanWord = <<>> THEN "" ELSE cleanWord[Len(cleanWord)]
    IN IF pauseOnPunctuation /\ last \in SentenceEnd
       THEN times(base2, punctuationMultiplier, 1)
       ELSE IF pauseOnPunctuation /\ last = ","
       THEN times(base2, 3, 2)
       ELSE base2

shouldPauseAtWord(wordIndex, pauseAfterWords) ==
  IF pauseAfterWords <= 0 THEN FALSE
  ELSE IF wordIndex <= 0 THEN FALSE
  ELSE wordIndex % pauseAfterWords = 0

\* ------------------------------------------------------ program state
VARIABLES
  words,                \* words.length
  contentStructure,     \* NoStructure or the structure of the loaded book
  currentWordIndex,
  isPlaying,
  isPaused,
  readingMode,          \* "rsvp" | "reader"
  currentChapterIndex,
  readerScrollPosition, \* percentage, a rational <<num, den>>
  readerAutoScroll,
  highlightWordIndex,   \* Null or a word index
  isRewinding,
  wasHoldDown,
  rewindHoldTimeout,    \* handle of the 200 ms hold timer
  rewindIntervalId,     \* handle of the rewind stepping interval
  speedUpdateIntervals, \* pending speed-update intervals (local handles)
  intervalId,           \* handle of the step timer
  stepOrphans,          \* pending step timers intervalId no longer names
  pauseTimers,          \* pending periodic-pause resume callbacks
  imageTimers,          \* pending image resume callbacks
  autoSaveIntervalId,   \* handle of the auto-save interval
  isShowingImage,
  isLoadingFile,
  loadingMessage,       \* "" | "loading" | "error": the text under the file button
  messageTimers,        \* pending callbacks that clear loadingMessage
  pauseAfterWords,
  showImagesInRSVP,
  pressed,              \* environment: the rewind button is held down
  mounted,              \* onMount has finished looking for a session
  opCount,              \* environment: user operations so far
  lastOp,               \* history: the last operation and its input
  tripStart             \* history: position at the last switch to reader
                        \* mode, while only scroll events followed it

progVars ==
  <<words, contentStructure, currentWordIndex, isPlaying, isPaused,
    readingMode, currentChapterIndex, readerScrollPosition, readerAutoScroll,
    highlightWordIndex, isRewinding, wasHoldDown, rewindHoldTimeout,
    rewindIntervalId, speedUpdateIntervals, intervalId, stepOrphans,
    pauseTimers, imageTimers, autoSaveIntervalId, isShowingImage,
    isLoadingFile, loadingMessage, messageTimers, pauseAfterWords,
    showImagesInRSVP>>

vars == <<progVars, pressed, mounted, opCount, lastOp, tripStart>>

\* the program state as one record, so that handlers compose as functions
Cur ==
  [words |-> words, contentStructure |-> contentStructure,
   currentWordIndex |-> currentWordIndex, isPlaying |-> isPlaying,
   isPaused |-> isPaused, readingMode |-> readingMode,
   currentChapterIndex |-> currentChapterIndex,
   readerScrollPosition |-> readerScrollPosition,
   readerAutoScroll |-> readerAutoScroll,
   highlightWordIndex |-> highlightWordIndex, isRewinding |-> isRewinding,
   wasHoldDown |-> wasHoldDown, rewindHoldTimeout |-> rewindHoldTimeout,
   rewindIntervalId |-> rewindIntervalId,
   speedUpdateIntervals |-> speedUpdateIntervals, intervalId |-> intervalId,
   stepOrphans |-> stepOrphans, pauseTimers |-> pauseTimers,
   imageTimers |-> imageTimers, autoSaveIntervalId |-> autoSaveIntervalId,
   isShowingImage |-> isShowingImage, isLoadingFile |-> isLoadingFile,
   loadingMessage |-> loadingMessage, messageTimers |-> messageTimers,
   pauseAfterWords |-> pauseAfterWords, showImagesInRSVP |-> showImagesInRSVP]

Becomes(t) ==
  /\ words' = t.words
  /\ contentStructure' = t.contentStructure
  /\ currentWordIndex' = t.currentWordIndex
  /\ isPlaying' = t.isPlaying
  /\ isPaused' = t.isPaused
  /\ readingMode' = t.readingMode
  /\ currentChapterIndex' = t.currentChapterIndex
  /\ readerScrollPosition' = t.readerScrollPosition
  /\ readerAutoScroll' = t.readerAutoScroll
  /\ highlightWordIndex' = t.highlightWordIndex
  /\ isRewinding' = t.isRewinding
  /\ wasHoldDown' = t.wasHoldDown
  /\ rewindHoldTimeout' = t.rewindHoldTimeout
  /\ rewindIntervalId' = t.rewindIntervalId
  /\ speedUpdateIntervals' = t.speedUpdateIntervals
  /\ intervalId' = t.intervalId
  /\ stepOrphans' = t.stepOrphans
  /\ pauseTimers' = t.pauseTimers
  /\ imageTimers' = t.imageTimers
  /\ autoSaveIntervalId' = t.autoSaveIntervalId
  /\ isShowingImage' = t.isShowingImage
  /\ isLoadingFile' = t.isLoadingFile
  /\ loadingMessage' = t.loadingMessage
  /\ messageTimers' = t.messageTimers
  /\ pauseAfterWords' = t.pauseAfterWords
  /\ showImagesInRSVP' = t.showImagesInRSVP

\* the counters of pending callbacks stay within the model's bound
WithinBounds(t) ==
  /\ t.stepOrphans <= MaxPending
  /\ t.pauseTimers <= MaxPending
  /\ t.imageTimers <= MaxPending
  /\ t.messageTimers <= MaxPending
  /\ t.speedUpdateIntervals <= MaxPending

\* ---------------------------------------------------- timers and saving
\* if (h) { clearTimeout(h); h = null; }
clearHandle(h) == "null"

stopAutoSave(s) == [s EXCEPT !.autoSaveIntervalId = clearHandle(@)]

\* saveCurrentSession writes the session store only
saveCurrentSession(s) == s

startAutoSave(s) ==
  [saveCurrentSession(stopAutoSave(s)) EXCEPT !.autoSaveIntervalId = "live"]

\* ------------------------------------------------------ forward stepping
stop(s) ==
  saveCurrentSession(stopAutoSave(
    [s EXCEPT !.isPlaying = FALSE, !.isPaused = FALSE,
              !.intervalId = clearHandle(@)]))

scheduleNextWord(s) ==
  IF ~s.isPlaying \/ s.currentWordIndex >= s.words THEN s
  ELSE [s EXCEPT !.stepOrphans = IF s.intervalId = "live" THEN @ + 1 ELSE @,
                 !.intervalId = "live"]

showImage(s, image) ==
  IF image.unavailable THEN s
  ELSE [s EXCEPT !.isShowingImage = TRUE, !.isPaused = TRUE,
                 !.imageTimers = @ + 1]

\* contentStructure.images.find(img => img.wordPosition === currentWordIndex)
imageAtPosition(s) ==
  LET imgs == s.contentStructure.images
      hits == { j \in 1..Len(imgs) : imgs[j].wordPosition = s.currentWordIndex }
  IN IF hits = {} THEN 0 ELSE CHOOSE j \in hits : \A k \in hits : j <= k

showNextWord(s) ==
  IF s.currentWordIndex >= s.words THEN stop(s)
  ELSE IF /\ s.showImagesInRSVP
          /\ s.contentStructure.present
          /\ imageAtPosition(s) # 0
       THEN showImage(s, s.contentStructure.images[imageAtPosition(s)])
  ELSE IF shouldPauseAtWord(s.currentWordIndex, s.pauseAfterWords)
       THEN [s EXCEPT !.isPaused = TRUE, !.pauseTimers = @ + 1]
  ELSE scheduleNextWord(
         [s EXCEPT !.currentWordIndex = @ + 1,
                   !.highlightWordIndex =
                      IF s.readingMode = "reader" /\ s.contentStructure.present
                      THEN s.currentWordIndex + 1 ELSE @])

\* the callback of the periodic-pause timer
pauseTimerCallback(s) ==
  IF s.isPlaying THEN scheduleNextWord([s EXCEPT !.isPaused = FALSE]) ELSE s

\* variant: the image callback resumes without advancing the index
imageTimerCallback_noAdvance(s) ==
  IF s.isPlaying
  THEN scheduleNextWord([s EXCEPT !.isShowingImage = FALSE, !.isPaused = FALSE])
  ELSE s

\* the callback of the image timer
imageTimerCallback(s) ==
  IF s.isPlaying
  THEN scheduleNextWord(
         [s EXCEPT !.isShowingImage = FALSE, !.isPaused = FALSE,
                   !.currentWordIndex = @ + 1])
  ELSE s

\* words is non-empty here or parseText() of the text in memory is tried:
\* the text in memory parses to the words in memory, so it stays empty
start(s) ==
  IF s.words = 0 THEN [s EXCEPT !.currentWordIndex = 0]
  ELSE startAutoSave(showNextWord([s EXCEPT !.isPlaying = TRUE, !.isPaused = FALSE]))

pause(s) ==
  saveCurrentSession(stopAutoSave(
    [s EXCEPT !.isPlaying = FALSE, !.isPaused = TRUE,
              !.intervalId = clearHandle(@)]))

resume(s) ==
  IF s.currentWordIndex < s.words
  THEN startAutoSave(scheduleNextWord([s EXCEPT !.isPlaying = TRUE, !.isPaused = FALSE]))
  ELSE s

restart(s) == start(stop([s EXCEPT !.currentWordIndex = 0]))

\* -------------------------------------------------- reader-mode controls
startReaderAutoScroll(s) ==
  startAutoSave([s EXCEPT !.readerAutoScroll = TRUE, !.isPlaying = TRUE,
                          !.isPaused = FALSE])

\* readerScrollIntervalId is never assigned a timer, so there is none to clear
stopReaderAutoScroll(s) ==
  saveCurrentSession(stopAutoSave([s EXCEPT !.readerAutoScroll = FALSE]))

toggleReaderAutoScroll(s) ==
  IF s.readerAutoScroll
  THEN [stopReaderAutoScroll(s) EXCEPT !.isPlaying = FALSE]
  ELSE startReaderAutoScroll(s)

\* variant: the switch to word-at-a-time mode does not start playback
switchReadingMode_noAutoPlay(s, newMode) ==
  IF newMode = s.readingMode THEN s
  ELSE IF ~s.contentStructure.present /\ newMode = "reader" THEN s
  ELSE
    LET s1 == IF s.isPlaying THEN pause(s) ELSE s
        s2 == IF s1.readerAutoScroll THEN stopReaderAutoScroll(s1) ELSE s1
        ci == getChapterAtWordIndex(s2.contentStructure, s2.currentWordIndex)
        s3 == IF s2.readingMode = "rsvp" /\ newMode = "reader"
              THEN [s2 EXCEPT
                      !.currentChapterIndex = ci,
                      !.readerScrollPosition =
                         getScrollPercentageInChapter(
                           s2.contentStructure.chapters[ci + 1],
                           s2.currentWordIndex),
                      !.highlightWordIndex = s2.currentWordIndex]
              ELSE IF s2.readingMode = "reader" /\ newMode = "rsvp"
              THEN [s2 EXCEPT !.highlightWordIndex = Null]
              ELSE s2
        s4 == [s3 EXCEPT !.readingMode = newMode]
    IN s4

switchReadingMode(s, newMode) ==
  IF newMode = s.readingMode THEN s
  ELSE IF ~s.contentStructure.present /\ newMode = "reader" THEN s
  ELSE
    LET s1 == IF s.isPlaying THEN pause(s) ELSE s
        s2 == IF s1.readerAutoScroll THEN stopReaderAutoScroll(s1) ELSE s1
        ci == getChapterAtWordIndex(s2.contentStructure, s2.currentWordIndex)
        s3 == IF s2.readingMode = "rsvp" /\ newMode = "reader"
              THEN [s2 EXCEPT
                      !.currentChapterIndex = ci,
                      !.readerScrollPosition =
                         getScrollPercentageInChapter(
                           s2.contentStructure.chapters[ci + 1],
                           s2.currentWordIndex),
                      !.highlightWordIndex = s2.currentWordIndex]
              ELSE IF s2.readingMode = "reader" /\ newMode = "rsvp"
              THEN [s2 EXCEPT !.highlightWordIndex = Null]
              ELSE s2
        s4 == [s3 EXCEPT !.readingMode = newMode]
    IN IF newMode = "rsvp" THEN start(s4) ELSE s4

\* item is the TOC entry clicked
handleTOCNavigate(s, item) ==
  LET s1 == [s EXCEPT !.currentChapterIndex = item.chapterIndex] IN
  IF s.readingMode = "rsvp"
  THEN [s1 EXCEPT !.currentWordIndex = item.startWordIndex]
  ELSE [s1 EXCEPT !.readerScrollPosition = <<0, 1>>]

\* variant: a scroll event also moves the reading head to the scrolled word
handleReaderScroll_syncHead(s, percentage) ==
  [s EXCEPT !.readerScrollPosition = <<percentage, 1>>,
            !.currentWordIndex =
               getWordIndexFromScroll(
                 s.contentStructure.chapters[s.currentChapterIndex + 1],
                 <<percentage, 1>>)]

handleReaderScroll(s, percentage) ==
  [s EXCEPT !.readerScrollPosition = <<percentage, 1>>]

handleReaderChapterChange(s, index) ==
  saveCurrentSession(
    [s EXCEPT !.currentChapterIndex = index, !.readerScrollPosition = <<0, 1>>])

handleReaderWordClick(s, clickedWordIndex) ==
  [s EXCEPT !.currentWordIndex = clickedWordIndex,
            !.highlightWordIndex =
               IF s.readingMode = "reader" THEN clickedWordIndex ELSE @]

\* ---------------------------------------------------------------- rewind
Max(a, b) == IF a >= b THEN a ELSE b
Min(a, b) == IF a <= b THEN a ELSE b

RECURSIVE stopRewind(_)
RECURSIVE rewindByAmount(_, _)

rewindByAmount(s, amount) ==
  LET s1 == [s EXCEPT !.currentWordIndex = Max(0, @ - amount)] IN
  IF s1.currentWordIndex = 0 THEN stopRewind(s1) ELSE s1

\* variant: a quick tap resumes playback like a hold does
stopRewind_tapResumes(s) ==
  LET s1 == IF s.rewindHoldTimeout # "null" /\ s.isRewinding
            THEN resume(rewindByAmount([s EXCEPT !.rewindHoldTimeout = "null"], 1))
            ELSE IF s.wasHoldDown THEN resume(s)
            ELSE s
  IN [s1 EXCEPT !.isRewinding = FALSE, !.wasHoldDown = FALSE,
                !.rewindIntervalId = clearHandle(@),
                !.rewindHoldTimeout = clearHandle(@)]

stopRewind(s) ==
  LET s1 == IF s.rewindHoldTimeout # "null" /\ s.isRewinding
            THEN rewindByAmount([s EXCEPT !.rewindHoldTimeout = "null"], 1)
            ELSE IF s.wasHoldDown THEN resume(s)
            ELSE s
  IN [s1 EXCEPT !.isRewinding = FALSE, !.wasHoldDown = FALSE,
                !.rewindIntervalId = clearHandle(@),
                !.rewindHoldTimeout = clearHandle(@)]

startRewind(s) ==
  LET s1 == IF s.isPlaying THEN pause(s) ELSE s IN
  IF s1.currentWordIndex = 0 THEN s1
  ELSE [s1 EXCEPT !.isRewinding = TRUE, !.wasHoldDown = FALSE,
                  !.rewindHoldTimeout = "live"]

\* clears the running interval, then starts one at the current speed
updateRewindSpeed(s) == [s EXCEPT !.rewindIntervalId = "live"]

startProgressiveRewind(s) ==
  LET s1 == [s EXCEPT !.rewindHoldTimeout = clearHandle(@)]
      s2 == rewindByAmount(s1, 1)
      s3 == updateRewindSpeed(s2)
  IN [s3 EXCEPT !.speedUpdateIntervals = @ + 1]

\* the callback of the 200 ms hold timer set by startRewind
holdTimerCallback(s) == startProgressiveRewind([s EXCEPT !.wasHoldDown = TRUE])

\* the callback of the speed-update interval; it clears itself once the
\* rewind has ended
speedUpdateCallback(s) ==
  IF ~s.isRewinding THEN [s EXCEPT !.speedUpdateIntervals = @ - 1]
  ELSE updateRewindSpeed(s)

\* ------------------------------------------------- documents and position
\* text pasted in the text panel, parsing to n tokens
handleTextApply(s, n) ==
  [stop(s) EXCEPT !.words = n, !.currentWordIndex = 0]

\* handleFileSelect up to its first await
handleFileSelectBegin(s) ==
  LET s1 == IF s.isPlaying \/ s.isPaused
            THEN [s EXCEPT !.isPlaying = FALSE, !.isPaused = FALSE,
                           !.intervalId = clearHandle(@)]
            ELSE s
  IN [stopAutoSave(s1) EXCEPT !.isLoadingFile = TRUE, !.loadingMessage = "loading"]

\* handleFileSelect after parseFile has resolved with result
handleFileSelectDone(s, result) ==
  [s EXCEPT !.words = result.words,
            !.contentStructure = result.contentStructure,
            !.currentWordIndex = 0,
            !.currentChapterIndex = 0,
            !.readerScrollPosition = <<0, 1>>,
            !.loadingMessage = "",
            !.isLoadingFile = FALSE]

\* variant: the failed load resets the position as a successful one does
handleFileSelectFailed_resetsPosition(s) ==
  [s EXCEPT !.currentWordIndex = 0,
            !.currentChapterIndex = 0,
            !.readerScrollPosition = <<0, 1>>,
            !.loadingMessage = "error",
            !.messageTimers = @ + 1,
            !.isLoadingFile = FALSE]

\* handleFileSelect after parseFile has rejected: the catch and the finally
handleFileSelectFailed(s) ==
  [s EXCEPT !.loadingMessage = "error",
            !.messageTimers = @ + 1,
            !.isLoadingFile = FALSE]

\* the callback set in the catch: setTimeout(() => { loadingMessage = ''; }, 3000)
messageTimerCallback(s) == [s EXCEPT !.loadingMessage = ""]

\* the number of tokens the built-in demo text parses to
DemoWords == MaxWords

\* variant: the position and the mode are taken before the text is validated
loadSavedSession_positionFirst(s, session) ==
  IF ~session.present THEN s
  ELSE LET s1 == [s EXCEPT !.currentWordIndex = session.currentWordIndex,
                           !.readingMode = session.readingMode]
       IN IF session.textTooLarge \/ session.blank THEN s1
          ELSE [s1 EXCEPT !.words = session.words,
                          !.contentStructure = session.contentStructure]

\* session is what loadSession resolved with: present is false for null,
\* blank says that session.text is missing or holds only white space, and
\* session.words is the number of tokens session.text parses to
loadSavedSession(s, session) ==
  IF ~session.present THEN s
  ELSE IF session.textTooLarge THEN s
  ELSE IF session.blank THEN s
  ELSE IF session.words = 0 THEN [s EXCEPT !.words = DemoWords]
  ELSE [s EXCEPT !.words = session.words,
                 !.currentWordIndex = session.currentWordIndex,
                 !.readingMode = session.readingMode,
                 !.currentChapterIndex = session.currentChapterIndex,
                 !.readerScrollPosition = session.readerScrollPosition,
                 !.contentStructure = session.contentStructure,
                 !.pauseAfterWords = session.pauseAfterWords,
                 !.showImagesInRSVP = session.showImagesInRSVP]

\* whether loadSavedSession returns false for the session
sessionRejected(session) ==
  \/ ~session.present
  \/ session.textTooLarge
  \/ session.blank
  \/ session.words = 0

\* targetIndex is the clamped number, or the floor of the clamped percentage
jumpToWord(s, targetIndex) ==
  IF s.words = 0 THEN s ELSE [s EXCEPT !.currentWordIndex = targetIndex]

handleProgressClick(s, percentage) ==
  [s EXCEPT !.currentWordIndex =
              Max(0, Min(s.words, (percentage * s.words) \div 100))]

keyArrowLeft(s) ==
  IF s.currentWordIndex > 1
  THEN [s EXCEPT !.currentWordIndex = Max(0, @ - 2)] ELSE s

keyArrowRight(s) ==
  IF s.currentWordIndex < s.words
  THEN [s EXCEPT !.currentWordIndex = @ + 1] ELSE s

keySpace(s) ==
  IF s.readingMode = "reader" THEN toggleReaderAutoScroll(s)
  ELSE IF s.isPlaying THEN pause(s)
  ELSE IF s.isPaused THEN resume(s)
  ELSE start(s)

\* the last branch of the Escape case: leave focus mode
keyEscape(s) ==
  IF s.isPlaying \/ s.isPaused \/ s.readerAutoScroll
  THEN [s EXCEPT !.isPlaying = FALSE, !.isPaused = FALSE,
                 !.readerAutoScroll = FALSE, !.intervalId = clearHandle(@)]
  ELSE s

back5(s) == [s EXCEPT !.currentWordIndex = Max(0, @ - 5)]
forward5(s) == [s EXCEPT !.currentWordIndex = Min(s.words, @ + 5)]

\* ------------------------------------------------------ session store
\* (progress-storage.js and indexed-db-storage.js)
\* A session is modelled by an identity, the size of its serialized form
\* and whether its chapters carry htmlContent.  Sizes above SizeThreshold
\* stand for "more than 2 MB".  localStorage either throws on every access
\* (lsDisabled), or accepts a setItem only if the value fits its quota
\* (lsQuota; 0: every setItem throws, as in a private window).  Requests to
\* IndexedDB are served in the order they were made; each one can fail.

\* calls to the store in one run
MaxCalls == 3
\* sizes of serialized sessions
MaxSize == 3
\* requests to IndexedDB in flight
MaxQueue == 2
\* sizeInMB > 2
SizeThreshold == 2

SessionIds == {1, 2}

NoSession == [id |-> 0, size |-> 0, html |-> FALSE]

StoredSessions ==
  [id : SessionIds, size : 1..MaxSize, html : BOOLEAN]

VARIABLES
  lsDisabled,   \* every localStorage access throws
  lsQuota,      \* largest value localStorage.setItem accepts
  lsSession,    \* localStorage['rsvp-reading-session'], or NoSession
  lsFlag,       \* localStorage['rsvp-use-indexeddb'] === 'true'
  idbSession,   \* the record under 'current-session', or NoSession
  idbQueue,     \* requests to IndexedDB not yet served, oldest first
  outcome,      \* the last call or completion and what its caller observed
  callCount     \* environment: calls made so far

storeVars ==
  <<lsDisabled, lsQuota, lsSession, lsFlag, idbSession, idbQueue, outcome,
    callCount>>

StoreCur ==
  [lsDisabled |-> lsDisabled, lsQuota |-> lsQuota, lsSession |-> lsSession,
   lsFlag |-> lsFlag, idbSession |-> idbSession, idbQueue |-> idbQueue,
   outcome |-> outcome]

StoreBecomes(t) ==
  /\ lsDisabled' = t.lsDisabled
  /\ lsQuota' = t.lsQuota
  /\ lsSession' = t.lsSession
  /\ lsFlag' = t.lsFlag
  /\ idbSession' = t.idbSession
  /\ idbQueue' = t.idbQueue
  /\ outcome' = t.outcome

Outcome(op, value, session, probed, returned) ==
  [op |-> op, value |-> value, session |-> session, probed |-> probed,
   returned |-> returned]

\* a request to IndexedDB; mark is the fallback flag of a save (the small
\* tier was tried first and failed) and the success so far of a clear
Request(kind, session, mark) == [kind |-> kind, session |-> session, mark |-> mark]

\* the store before any call
StoreIdle ==
  /\ lsDisabled = FALSE
  /\ lsQuota = MaxSize
  /\ lsSession = NoSession
  /\ lsFlag = FALSE
  /\ idbSession = NoSession
  /\ idbQueue = <<>>
  /\ outcome = Outcome("init", "none", NoSession, FALSE, "none")
  /\ callCount = 0

\* the data object written to localStorage: chapters without htmlContent
lightweight(session) == [session EXCEPT !.html = FALSE]

\* the call returns a promise; the write happens when the request is served
saveSessionToIndexedDB(st, session, fallback) ==
  [st EXCEPT !.idbQueue = Append(@, Request("save", session, fallback)),
             !.outcome = Outcome("saveSession", "promise", session, fallback, "promise")]

saveSession(st, session) ==
  IF st.lsDisabled
  THEN \* localStorage.getItem(USE_INDEXEDDB_KEY) throws, outside any try
       [st EXCEPT !.outcome = Outcome("saveSession", "throws", session, FALSE, "throws")]
  ELSE IF st.lsFlag THEN saveSessionToIndexedDB(st, session, FALSE)
  ELSE IF st.lsQuota = 0
  THEN \* the test write throws, and so does the flag write in its catch
       [st EXCEPT !.outcome = Outcome("saveSession", "throws", session, TRUE, "throws")]
  ELSE IF session.size > SizeThreshold
  THEN saveSessionToIndexedDB([st EXCEPT !.lsFlag = TRUE], session, TRUE)
  ELSE IF session.size > st.lsQuota
  THEN \* QuotaExceededError from setItem(STORAGE_KEY, serialized)
       saveSessionToIndexedDB([st EXCEPT !.lsFlag = TRUE], session, TRUE)
  ELSE [st EXCEPT !.lsSession = lightweight(session),
                  !.outcome = Outcome("saveSession", "true", session, TRUE, "true")]

\* variant: the small tier is read first even when the flag is set
loadSession_probeFirst(st) ==
  IF st.lsDisabled
  THEN [st EXCEPT !.outcome = Outcome("loadSession", "throws", NoSession, FALSE, "none")]
  ELSE IF st.lsSession = NoSession
  THEN [st EXCEPT !.idbQueue = Append(@, Request("load", NoSession, TRUE)),
                  !.outcome = Outcome("loadSession", "pending", NoSession, TRUE, "none")]
  ELSE [st EXCEPT !.outcome = Outcome("loadSession", "session", st.lsSession, TRUE, "none")]

loadSession(st) ==
  IF st.lsDisabled
  THEN \* localStorage.getItem(USE_INDEXEDDB_KEY) throws, outside any try
       [st EXCEPT !.outcome = Outcome("loadSession", "throws", NoSession, FALSE, "none")]
  ELSE IF st.lsFlag
  THEN [st EXCEPT !.idbQueue = Append(@, Request("load", NoSession, FALSE)),
                  !.outcome = Outcome("loadSession", "pending", NoSession, FALSE, "none")]
  ELSE IF st.lsSession = NoSession
  THEN [st EXCEPT !.idbQueue = Append(@, Request("load", NoSession, TRUE)),
                  !.outcome = Outcome("loadSession", "pending", NoSession, TRUE, "none")]
  ELSE [st EXCEPT !.outcome = Outcome("loadSession", "session", st.lsSession, TRUE, "none")]

hasSession(st) ==
  IF ~st.lsDisabled /\ st.lsSession # NoSession
  THEN [st EXCEPT !.outcome = Outcome("hasSession", "true", NoSession, TRUE, "none")]
  ELSE [st EXCEPT !.idbQueue = Append(@, Request("has", NoSession, ~st.lsDisabled)),
                  !.outcome = Outcome("hasSession", "pending", NoSession, ~st.lsDisabled, "none")]

\* the localStorage part runs at once; the request carries success so far
clearSession(st) ==
  LET s1 == IF st.lsDisabled THEN st
            ELSE [st EXCEPT !.lsSession = NoSession, !.lsFlag = FALSE]
  IN [s1 EXCEPT !.idbQueue = Append(@, Request("clear", NoSession, ~st.lsDisabled)),
                !.outcome = Outcome("clearSession", "pending", NoSession, FALSE, "none")]

\* IndexedDB serves the oldest request; ok says whether it succeeds
serveRequest(st, ok) ==
  LET req  == Head(st.idbQueue)
      rest == [st EXCEPT !.idbQueue = Tail(@)]
  IN
  IF req.kind = "save"
  THEN [rest EXCEPT !.idbSession = IF ok THEN req.session ELSE @,
                    !.outcome = Outcome("saveSettled", IF ok THEN "true" ELSE "false",
                                        req.session, req.mark, "promise")]
  ELSE IF req.kind = "load"
  THEN [rest EXCEPT !.outcome =
          IF ok /\ st.idbSession # NoSession
          THEN Outcome("loadSession", "session", st.idbSession, req.mark, "none")
          ELSE Outcome("loadSession", "null", NoSession, req.mark,
                       IF ok THEN "none" ELSE "failed")]
  ELSE IF req.kind = "has"
  THEN [rest EXCEPT !.outcome =
          Outcome("hasSession",
                  IF ok /\ st.idbSession # NoSession THEN "true" ELSE "false",
                  NoSession, req.mark, "none")]
  ELSE \* clearSessionFromIndexedDB returns false instead of throwing, so
       \* the catch of clearSession never runs
       [rest EXCEPT !.idbSession = IF ok THEN NoSession ELSE @,
                    !.outcome = Outcome("clearSession",
                                        IF req.mark THEN "true" ELSE "false",
                                        NoSession, ok, "none")]

\* the call of a library function in progress (see the library functions)
VARIABLES
  libCall,      \* [fn, input]: the call being made, fn = "none" for none
  libResult     \* [done, value]: the value returned, once done

libVars == <<libCall, libResult>>

LibIdle ==
  /\ libCall = [fn |-> "none", input |-> <<>>]
  /\ libResult = [done |-> FALSE, value |-> <<>>]

\* a call of the store by the app
StoreCall(t) ==
  /\ callCount < MaxCalls
  /\ Len(t.idbQueue) <= MaxQueue
  /\ callCount' = callCount + 1
  /\ StoreBecomes(t)
  /\ UNCHANGED <<vars, libVars>>

SaveCall == \E session \in StoredSessions : StoreCall(saveSession(StoreCur, session))

LoadCall == StoreCall(loadSession(StoreCur))

HasCall == StoreCall(hasSession(StoreCur))

ClearCall == StoreCall(clearSession(StoreCur))

IdbCompletes ==
  /\ idbQueue # <<>>
  /\ \E ok \in BOOLEAN : StoreBecomes(serveRequest(StoreCur, ok))
  /\ UNCHANGED <<vars, libVars, callCount>>

\* the browser's storage as the app finds it: left by earlier runs
StoreInit ==
  /\ lsDisabled \in BOOLEAN
  /\ lsQuota \in 0..MaxSize
  /\ lsSession = NoSession
  /\ lsFlag = FALSE
  /\ idbSession = NoSession
  /\ idbQueue = <<>>
  /\ outcome = Outcome("init", "none", NoSession, FALSE, "none")
  /\ callCount = 0

StoreNext == SaveCall \/ LoadCall \/ HasCall \/ ClearCall \/ IdbCompletes

\* ------------------------------------------------- the library functions
\* The parsers and the position and timing utilities are pure functions:
\* a call is given by the function's name and its arguments, and completes
\* with the value the function returns.
\* longest text, in characters
MaxText == 6
\* most pages of a PDF, most entries of its outline, most spine sections
MaxPages == 2
MaxOutline == 2
MaxSpine == 2

SeqsUpTo(S, n) == UNION { [1..k -> S] : k \in 0..n }

Texts == SeqsUpTo(Chars, MaxText)

\* the trimmed text of a page
PageTexts == { <<>>, <<"a">>, <<"a", "\n", "\n", "a">> }

\* a PDF long enough for buildPageBasedChapters to cut it in two
LongPdf == [pageTexts |-> [i \in 1..20 |-> <<"a">>], outline |-> <<>>]

Pdfs ==
  { [pageTexts |-> pages, outline |-> outline] :
      pages \in SeqsUpTo(PageTexts, MaxPages) \ {<<>>},
      outline \in SeqsUpTo(1..MaxPages, MaxOutline) }

PdfInputs ==
  { pdf \in Pdfs : \A i \in 1..Len(pdf.outline) :
                     pdf.outline[i] <= Len(pdf.pageTexts) }
  \cup {LongPdf, [pageTexts |-> <<>>, outline |-> <<>>]}

SectionTexts == { <<>>, <<"a">>, <<"a", " ", "a">>, <<"a", "\n", "a">> }

Sections ==
  { Section(h, l, t, text) : h \in BOOLEAN, l \in BOOLEAN, t \in BOOLEAN,
                             text \in SectionTexts }

Spines == SeqsUpTo(Sections, MaxSpine)

\* a chapter given by its interval
Intervals ==
  { [startWordIndex |-> a, endWordIndex |-> b] : a \in 0..MaxWords, b \in 0..MaxWords }

ScrollInputs ==
  { [chapter |-> c, percent |-> p] :
      c \in { i \in Intervals : i.startWordIndex <= i.endWordIndex },
      p \in 0..100 }

\* the document of the scenario: chapters of 100, 150 and 50 words
ScenarioStructure ==
  parseEPUBWithStructure(<<Chap(100, <<>>), Chap(150, <<>>), Chap(50, <<>>)>>).contentStructure

\* a word of n letters
letters(n) == [i \in 1..n |-> "a"]

WordArgs ==
  { NoWord, Word(<<>>), Word(BreakToken), Word(<<"a">>),
    Word(<<BreakMarker, "a">>), Word(<<"a", ".">>), Word(<<"a", ",">>),
    Word(<<BreakMarker, "a", ",">>), Word(<<BreakMarker>>),
    Word(letters(11)), Word(letters(12)), Word(letters(13)),
    Word(letters(13) \o <<".">>), Word(<<BreakMarker>> \o letters(13)) }

DelayInputs ==
  { [word |-> w, wordsPerMinute |-> wpm, pauseOnPunctuation |-> pp,
     punctuationMultiplier |-> 2, wordLengthWPMMultiplier |-> wl,
     lineBreakMultiplier |-> 3] :
      w \in WordArgs, wpm \in {0 - 60, 0, 300}, pp \in BOOLEAN, wl \in {0, 10} }

Returns(fn, value) ==
  /\ libCall.fn = fn
  /\ ~libResult.done
  /\ libResult' = [done |-> TRUE, value |-> value]
  /\ UNCHANGED <<libCall, vars, storeVars>>

ParseTextReturns == Returns("parseText", parseText(libCall.input))

ParsePDFReturns ==
  Returns("parsePDFWithStructure",
          parsePDFWithStructure(libCall.input.pageTexts, libCall.input.outline))

ParseEPUBReturns ==
  Returns("parseEPUBWithStructure", parseEPUBSpine(libCall.input))

WordIndexFromScrollReturns ==
  Returns("getWordIndexFromScroll",
          getWordIndexFromScroll(libCall.input.chapter, <<libCall.input.percent, 1>>))

\* the two calls switchReadingMode makes for a word index
PositionReturns ==
  Returns("position",
          LET index == getChapterAtWordIndex(ScenarioStructure, libCall.input) IN
          [chapterIndex |-> index,
           scroll |-> IF index + 1 \in DOMAIN ScenarioStructure.chapters
                      THEN getScrollPercentageInChapter(
                             ScenarioStructure.chapters[index + 1], libCall.input)
                      ELSE <<0, 1>>])

WordDelayReturns ==
  Returns("getWordDelay",
          getWordDelay(libCall.input.word, libCall.input.wordsPerMinute,
                       libCall.input.pauseOnPunctuation,
                       libCall.input.punctuationMultiplier,
                       libCall.input.wordLengthWPMMultiplier,
                       libCall.input.lineBreakMultiplier))

LibInit ==
  /\ libResult = [done |-> FALSE, value |-> <<>>]
  /\ \/ \E text \in Texts : libCall = [fn |-> "parseText", input |-> text]
     \/ \E pdf \in PdfInputs : libCall = [fn |-> "parsePDFWithStructure", input |-> pdf]
     \/ \E spine \in Spines : libCall = [fn |-> "parseEPUBWithStructure", input |-> spine]
     \/ \E c \in ScrollInputs : libCall = [fn |-> "getWordIndexFromScroll", input |-> c]
     \/ \E w \in 0..300 : libCall = [fn |-> "position", input |-> w]
     \/ \E d \in DelayInputs : libCall = [fn |-> "getWordDelay", input |-> d]

LibNext ==
  \/ ParseTextReturns \/ ParsePDFReturns \/ ParseEPUBReturns
  \/ WordIndexFromScrollReturns \/ PositionReturns \/ WordDelayReturns

\* ----------------------------------------------------- sessions at mount
\* a session a run can have saved: a book, a position in it and a mode
Sessions ==
  { [present |-> TRUE, textTooLarge |-> FALSE, blank |-> FALSE,
     words |-> f.words, contentStructure |-> f.contentStructure,
     currentWordIndex |-> p, readingMode |-> m,
     currentChapterIndex |-> getChapterAtWordIndex(f.contentStructure, p),
     readerScrollPosition |-> <<0, 1>>,
     pauseAfterWords |-> 0, showImagesInRSVP |-> TRUE] :
       f \in Files, p \in {1, MaxWords}, m \in {"rsvp", "reader"} }

\* what loadSession can resolve with that loadSavedSession turns down: null,
\* a position-only session, and a session whose text is empty; the other
\* fields are those of a book read in reader mode
RejectedSessions ==
  { [present |-> k # "null", textTooLarge |-> k = "textTooLarge",
     blank |-> k = "empty",
     words |-> IF k = "empty" THEN 0 ELSE f.words,
     contentStructure |-> f.contentStructure,
     currentWordIndex |-> 1, readingMode |-> "reader",
     currentChapterIndex |-> Len(f.contentStructure.chapters) - 1,
     readerScrollPosition |-> <<50, 1>>,
     pauseAfterWords |-> 2, showImagesInRSVP |-> FALSE] :
       f \in Files, k \in {"null", "textTooLarge", "empty"} }

\* ------------------------------------------------------------------ Init
\* the component state after construction
AppInit ==
  /\ words = DemoWords
  /\ contentStructure = NoStructure
  /\ currentWordIndex = 0
  /\ isPlaying = FALSE
  /\ isPaused = FALSE
  /\ readingMode = "rsvp"
  /\ currentChapterIndex = 0
  /\ readerScrollPosition = <<0, 1>>
  /\ readerAutoScroll = FALSE
  /\ highlightWordIndex = Null
  /\ isRewinding = FALSE
  /\ wasHoldDown = FALSE
  /\ rewindHoldTimeout = "null"
  /\ rewindIntervalId = "null"
  /\ speedUpdateIntervals = 0
  /\ intervalId = "null"
  /\ stepOrphans = 0
  /\ pauseTimers = 0
  /\ imageTimers = 0
  /\ autoSaveIntervalId = "null"
  /\ isShowingImage = FALSE
  /\ isLoadingFile = FALSE
  /\ loadingMessage = ""
  /\ messageTimers = 0
  /\ pauseAfterWords = 0
  /\ showImagesInRSVP = TRUE
  /\ pressed = FALSE
  /\ mounted = FALSE
  /\ opCount = 0
  /\ lastOp = [op |-> "init", arg |-> Null]
  /\ tripStart = Null

Init == AppInit /\ StoreIdle /\ LibIdle

\* --------------------------------------------------------------- actions
isFocusMode == isPlaying \/ isPaused

\* one operation: the program state becomes t
Step(name, arg, t) ==
  /\ WithinBounds(t)
  /\ Becomes(t)
  /\ lastOp' = [op |-> name, arg |-> arg]
  /\ UNCHANGED <<storeVars, libVars>>

\* an operation of the user, once the app is mounted
UserStep(name, arg, t) ==
  /\ mounted
  /\ opCount < MaxOps
  /\ opCount' = opCount + 1
  /\ Step(name, arg, t)

Op(name, arg, t) ==
  /\ UserStep(name, arg, t)
  /\ tripStart' = Null
  /\ UNCHANGED <<pressed, mounted>>

\* a timer callback or the completion of an asynchronous call
Auto(name, arg, t) ==
  /\ Step(name, arg, t)
  /\ tripStart' = Null
  /\ UNCHANGED <<pressed, mounted, opCount>>

\* onMount finds no session
MountNoSession ==
  /\ ~mounted
  /\ Step("onMount", Null, Cur)
  /\ mounted' = TRUE
  /\ tripStart' = Null
  /\ UNCHANGED <<pressed, opCount>>

\* onMount finds a session: loadSavedSession runs once loadSession resolves
MountLoadSession ==
  /\ ~mounted
  /\ \E session \in Sessions \cup RejectedSessions :
       Step("loadSavedSession",
            IF sessionRejected(session) THEN Null ELSE session.currentWordIndex,
            loadSavedSession(Cur, session))
  /\ mounted' = TRUE
  /\ tripStart' = Null
  /\ UNCHANGED <<pressed, opCount>>

KeySpace == Op("Space", Null, keySpace(Cur))

KeyEscape == Op("Escape", Null, keyEscape(Cur))

KeyArrowLeft == Op("ArrowLeft", Null, keyArrowLeft(Cur))

KeyArrowRight == Op("ArrowRight", Null, keyArrowRight(Cur))

\* the stop button of the controls
ClickStop ==
  /\ isFocusMode
  /\ Op("stop", Null, stop(Cur))

\* the restart button of the controls (shown in RSVP mode)
ClickRestart ==
  /\ readingMode = "rsvp"
  /\ words > 0
  /\ Op("restart", Null, restart(Cur))

\* the mode buttons and the M key
SwitchReadingMode ==
  /\ contentStructure.present
  /\ LET newMode == IF readingMode = "rsvp" THEN "reader" ELSE "rsvp" IN
     /\ UserStep("switchReadingMode", Null, switchReadingMode(Cur, newMode))
     /\ tripStart' = IF newMode = "reader" THEN currentWordIndex ELSE tripStart
  /\ UNCHANGED <<pressed, mounted>>

\* a click on an entry of the TOC panel
TOCNavigate ==
  /\ ~isFocusMode
  /\ contentStructure.present
  /\ contentStructure.hasStructure
  /\ \E i \in 1..Len(contentStructure.toc) :
       Op("handleTOCNavigate", contentStructure.toc[i].startWordIndex,
          handleTOCNavigate(Cur, contentStructure.toc[i]))

readerShown ==
  /\ readingMode = "reader"
  /\ contentStructure.present
  /\ currentChapterIndex < Len(contentStructure.chapters)

\* a scroll event of the reader view (user scroll or auto-scroll)
ReaderScroll ==
  /\ readerShown
  /\ \E percentage \in ScrollPercents :
       UserStep("handleReaderScroll", percentage, handleReaderScroll(Cur, percentage))
  /\ UNCHANGED <<pressed, mounted, tripStart>>

\* the previous and next chapter buttons, and auto-scroll reaching the end
\* of a chapter
ReaderChapterChange ==
  /\ readerShown
  /\ \E index \in {currentChapterIndex - 1, currentChapterIndex + 1} :
       /\ index >= 0
       /\ index < Len(contentStructure.chapters)
       /\ Op("handleReaderChapterChange", index,
             handleReaderChapterChange(Cur, index))

\* a click on a word of the chapter shown
ReaderWordClick ==
  /\ readerShown
  /\ LET chapter == contentStructure.chapters[currentChapterIndex + 1] IN
     \E i \in 0..(chapter.wordCount - 1) :
       Op("handleReaderWordClick", chapter.startWordIndex + i,
          handleReaderWordClick(Cur, chapter.startWordIndex + i))

rewindButtonShown == isFocusMode /\ readingMode = "rsvp" /\ words > 0

\* mousedown or touchstart on the rewind button
RewindPress ==
  /\ rewindButtonShown
  /\ currentWordIndex # 0
  /\ ~pressed
  /\ rewindHoldTimeout = "null"
  /\ UserStep("startRewind", Null, startRewind(Cur))
  /\ pressed' = TRUE
  /\ tripStart' = Null
  /\ UNCHANGED mounted

\* mouseup, touchend, touchcancel or mouseleave on the rewind button; the
\* step records the position a quick tap is released at
RewindRelease ==
  /\ rewindButtonShown
  /\ UserStep("stopRewind",
              IF rewindHoldTimeout = "live" /\ isRewinding
              THEN currentWordIndex ELSE Null,
              stopRewind(Cur))
  /\ pressed' = FALSE
  /\ tripStart' = Null
  /\ UNCHANGED mounted

\* the button is released after it has left the page: no event arrives
RewindReleaseUnseen ==
  /\ pressed
  /\ ~rewindButtonShown
  /\ UserStep("release", Null, Cur)
  /\ pressed' = FALSE
  /\ tripStart' = Null
  /\ UNCHANGED mounted

HoldTimerFires ==
  /\ rewindHoldTimeout = "live"
  /\ Auto("holdTimer", Null, holdTimerCallback(Cur))

RewindIntervalFires ==
  /\ rewindIntervalId = "live"
  /\ Auto("rewindInterval", Null, rewindByAmount(Cur, 1))

SpeedUpdateFires ==
  /\ speedUpdateIntervals > 0
  /\ Auto("speedUpdate", Null, speedUpdateCallback(Cur))

\* the step timer named by intervalId expires
StepTimerFires ==
  /\ intervalId = "live"
  /\ Auto("stepTimer", Null, showNextWord([Cur EXCEPT !.intervalId = "fired"]))

\* a step timer whose handle was overwritten expires
OrphanStepTimerFires ==
  /\ stepOrphans > 0
  /\ Auto("stepTimer", Null, showNextWord([Cur EXCEPT !.stepOrphans = @ - 1]))

PauseTimerFires ==
  /\ pauseTimers > 0
  /\ Auto("pauseTimer", Null, pauseTimerCallback([Cur EXCEPT !.pauseTimers = @ - 1]))

MessageTimerFires ==
  /\ messageTimers > 0
  /\ Auto("messageTimer", Null, messageTimerCallback([Cur EXCEPT !.messageTimers = @ - 1]))

ImageTimerFires ==
  /\ imageTimers > 0
  /\ Auto("imageTimer", Null, imageTimerCallback([Cur EXCEPT !.imageTimers = @ - 1]))

AutoSaveFires ==
  /\ autoSaveIntervalId = "live"
  /\ Auto("autoSave", Null, saveCurrentSession(Cur))

\* the apply button of the text panel
TextApply ==
  /\ ~isFocusMode
  /\ \E n \in 0..MaxWords : Op("handleTextApply", n, handleTextApply(Cur, n))

\* a file is chosen in the text panel
FileSelect ==
  /\ ~isFocusMode
  /\ ~isLoadingFile
  /\ Op("handleFileSelect", Null, handleFileSelectBegin(Cur))

FileParsed ==
  /\ isLoadingFile
  /\ \E result \in Files : Auto("fileParsed", Null, handleFileSelectDone(Cur, result))

FileFailed ==
  /\ isLoadingFile
  /\ Auto("fileFailed", Null, handleFileSelectFailed(Cur))

\* the jump-to panel
JumpToWord ==
  /\ ~isFocusMode
  /\ \E targetIndex \in 0..words : Op("jumpToWord", targetIndex, jumpToWord(Cur, targetIndex))

\* a click on the progress bar (clickable while not playing)
ProgressClick ==
  /\ ~isPlaying
  /\ \E percentage \in ScrollPercents :
       Op("handleProgressClick", percentage, handleProgressClick(Cur, percentage))

\* the back-5 and forward-5 touch buttons
Back5 == ~isFocusMode /\ Op("back5", Null, back5(Cur))

Forward5 == ~isFocusMode /\ Op("forward5", Null, forward5(Cur))

\* the settings panel
ChangeSettings ==
  /\ ~isFocusMode
  /\ \E n \in PauseIntervals, b \in BOOLEAN :
       Op("settings", n, [Cur EXCEPT !.pauseAfterWords = n, !.showImagesInRSVP = b])

Next ==
  \/ MountNoSession \/ MountLoadSession
  \/ KeySpace \/ KeyEscape \/ KeyArrowLeft \/ KeyArrowRight
  \/ ClickStop \/ ClickRestart
  \/ SwitchReadingMode \/ TOCNavigate
  \/ ReaderScroll \/ ReaderChapterChange \/ ReaderWordClick
  \/ RewindPress \/ RewindRelease \/ RewindReleaseUnseen
  \/ HoldTimerFires \/ RewindIntervalFires \/ SpeedUpdateFires
  \/ StepTimerFires \/ OrphanStepTimerFires \/ PauseTimerFires
  \/ ImageTimerFires \/ AutoSaveFires \/ MessageTimerFires
  \/ TextApply \/ FileSelect \/ FileParsed \/ FileFailed
  \/ JumpToWord \/ ProgressClick \/ Back5 \/ Forward5 \/ ChangeSettings

Spec == Init /\ [][Next]_vars

\* ------------------------------------------------- uninterrupted playback
\* A document is in memory, the settings are chosen and the position is set;
\* the user starts playback and then leaves the app alone.  Timers that are
\* pending do fire.
\* the documents played: the books, a book whose last token carries an
\* available image, and a text without structure
PlayFiles ==
  Files \cup
  { parseEPUBWithStructure(<<Chap(MaxWords, <<Img(MaxWords - 1, FALSE)>>)>>),
    [words |-> MaxWords, contentStructure |-> NoStructure] }

PlayInit ==
  /\ \E f \in PlayFiles :
       /\ words = f.words
       /\ contentStructure = f.contentStructure
  /\ currentWordIndex \in 0..words
  /\ pauseAfterWords \in PauseIntervals
  /\ showImagesInRSVP \in BOOLEAN
  /\ isPlaying = FALSE
  /\ isPaused = FALSE
  /\ readingMode = "rsvp"
  /\ currentChapterIndex = 0
  /\ readerScrollPosition = <<0, 1>>
  /\ readerAutoScroll = FALSE
  /\ highlightWordIndex = Null
  /\ isRewinding = FALSE
  /\ wasHoldDown = FALSE
  /\ rewindHoldTimeout = "null"
  /\ rewindIntervalId = "null"
  /\ speedUpdateIntervals = 0
  /\ intervalId = "null"
  /\ stepOrphans = 0
  /\ pauseTimers = 0
  /\ imageTimers = 0
  /\ autoSaveIntervalId = "null"
  /\ isShowingImage = FALSE
  /\ isLoadingFile = FALSE
  /\ loadingMessage = ""
  /\ messageTimers = 0
  /\ pressed = FALSE
  /\ mounted = TRUE
  /\ opCount = 0
  /\ lastOp = [op |-> "init", arg |-> Null]
  /\ tripStart = Null
  /\ StoreIdle
  /\ LibIdle

\* the play button, once
PlayStart ==
  /\ lastOp.op = "init"
  /\ Auto("start", Null, start(Cur))

PlayNext ==
  \/ PlayStart
  \/ StepTimerFires \/ PauseTimerFires \/ ImageTimerFires \/ AutoSaveFires

PlaySpec ==
  /\ PlayInit
  /\ [][PlayNext]_vars
  /\ WF_vars(StepTimerFires)
  /\ WF_vars(PauseTimerFires)
  /\ WF_vars(ImageTimerFires)

\* ------------------------------------------------- the store on its own
\* the app is idle: only the store is called
\* the session store alone, under a component that stays as constructed
StoreStart == AppInit /\ StoreInit /\ LibIdle

StoreSpec == StoreStart /\ [][StoreNext]_<<vars, storeVars>>

\* ------------------------------------------- the library on its own
\* one call of one library function, on arguments drawn from the bounded sets
LibStart == AppInit /\ StoreIdle /\ LibInit

LibSpec == LibStart /\ [][LibNext]_<<vars, storeVars, libVars>>

\* ---------------------------------------------------------------- claims

\* C1: after any sequence of operations currentWordIndex is an integer with
\* 0 <= currentWordIndex <= words.length.
C1_IndexInRange == currentWordIndex \in 0..words

\* C4: whenever the view mode is paginated, the highlight marker equals
\* currentWordIndex.
C4_HighlightIsIndex ==
  readingMode = "reader" => highlightWordIndex = currentWordIndex

\* the forward-step continuations that are pending
pendingContinuations ==
  (IF intervalId = "live" THEN 1 ELSE 0) + stepOrphans + pauseTimers + imageTimers

\* C6: at every moment at most one forward-step continuation is pending.
C6_OneContinuation == pendingContinuations <= 1

\* C7: immediately after stop() returns, no forward-step timer and no rewind
\* timer is pending.
C7_StopCancelsTimers ==
  lastOp.op = "stop" =>
    /\ pendingContinuations = 0
    /\ rewindHoldTimeout # "live"
    /\ rewindIntervalId # "live"
    /\ speedUpdateIntervals = 0

\* C8: while a file ingestion is in flight the orchestrator is not playing,
\* and when it completes the orchestrator is stopped at index 0 with no step
\* timer pending.
C8_NoPlaybackWhileLoading ==
  /\ isLoadingFile => ~isPlaying
  /\ lastOp.op = "fileParsed" =>
       /\ ~isPlaying
       /\ currentWordIndex = 0
       /\ intervalId # "live"
       /\ stepOrphans = 0

\* the index playback shows next when it is started at index p: start()
\* re-parses an empty word stream, and otherwise steps once unless p is the
\* end of the stream, carries an image marker or is a periodic-pause boundary
afterStart(p) ==
  IF words = 0 THEN 0
  ELSE IF p >= words THEN p
  ELSE IF /\ showImagesInRSVP
          /\ contentStructure.present
          /\ \E j \in 1..Len(contentStructure.images) :
                contentStructure.images[j].wordPosition = p
       THEN p
  ELSE IF shouldPauseAtWord(p, pauseAfterWords) THEN p
  ELSE p + 1

\* a switch to reader mode at position tripStart was followed by scroll
\* events only and then by the switch back that has just completed
roundTripDone ==
  /\ lastOp.op = "switchReadingMode"
  /\ readingMode = "rsvp"
  /\ tripStart # Null

selectedTarget ==
  IF lastOp'.op = "handleReaderChapterChange"
  THEN contentStructure.chapters[lastOp'.arg + 1].startWordIndex
  ELSE lastOp'.arg

\* C3: every word click, chapter change and TOC navigation sets
\* currentWordIndex to the selected target, and in paginated mode the
\* highlight equals the new currentWordIndex afterwards.
C3_NavigationSetsIndex ==
  [][lastOp'.op \in {"handleReaderWordClick", "handleReaderChapterChange",
                     "handleTOCNavigate"} =>
       /\ currentWordIndex' = selectedTarget
       /\ readingMode' = "reader" => highlightWordIndex' = currentWordIndex'
    ]_vars

\* everything of the program state but the stored scroll percentage
allButScroll ==
  <<words, contentStructure, currentWordIndex, isPlaying, isPaused,
    readingMode, currentChapterIndex, readerAutoScroll, highlightWordIndex,
    isRewinding, wasHoldDown, rewindHoldTimeout, rewindIntervalId,
    speedUpdateIntervals, intervalId, stepOrphans, pauseTimers, imageTimers,
    autoSaveIntervalId, isShowingImage, isLoadingFile, loadingMessage,
    messageTimers, pauseAfterWords, showImagesInRSVP>>

C9_PauseThenAdvance ==
  \A k \in 1..MaxWords :
    (isPlaying /\ pauseTimers > 0 /\ currentWordIndex = k)
      ~> (currentWordIndex > k)

unavailableImageAt(k) ==
  /\ showImagesInRSVP
  /\ contentStructure.present
  /\ \E j \in 1..Len(contentStructure.images) :
       /\ contentStructure.images[j].wordPosition = k
       /\ contentStructure.images[j].unavailable

\* C10: when playback is at an index whose image marker is unavailable, no
\* pause occurs and the index advances past the marker (periodic pauses off).
C10_SkipsUnavailableImage ==
  \A k \in 0..MaxWords :
    (/\ isPlaying
     /\ pauseAfterWords = 0
     /\ currentWordIndex = k
     /\ k < words
     /\ unavailableImageAt(k))
      ~> (currentWordIndex > k)

availableImageAt(k) ==
  /\ showImagesInRSVP
  /\ contentStructure.present
  /\ imageAtPosition(Cur) # 0
  /\ currentWordIndex = k
  /\ ~contentStructure.images[imageAtPosition(Cur)].unavailable

\* a playback step at an available image shows it and waits
imageShownByStep ==
  (/\ lastOp'.op \in {"start", "stepTimer"}
   /\ isPlaying'
   /\ \E k \in 0..(words - 1) : availableImageAt(k))
  => (/\ isShowingImage'
      /\ isPaused'
      /\ currentWordIndex' = currentWordIndex
      /\ imageTimers' = imageTimers + 1
      /\ intervalId' # "live")

\* the image timer, expiring while playing, clears the image and steps
imageClearedByTimer ==
  (lastOp'.op = "imageTimer" /\ isPlaying)
  => (/\ ~isShowingImage'
      /\ ~isPaused'
      /\ isPlaying'
      /\ currentWordIndex' = currentWordIndex + 1
      /\ imageTimers' = imageTimers - 1
      /\ (currentWordIndex' < words => intervalId' = "live")
      /\ (currentWordIndex' >= words => intervalId' = intervalId))

\* C11: a step of playback at an index with an available image marker
\* (images enabled) enters the paused image-showing state without moving the
\* index; when the image duration elapses while playing, the image is
\* cleared, currentWordIndex advances by exactly one and the next step is
\* scheduled (scheduleNextWord: a timer when the new index is before the end
\* of the stream); so a shown image is always followed by the next index.
C11_ImagePauseResumes ==
  /\ [][imageShownByStep /\ imageClearedByTimer]_vars
  /\ \A k \in 0..MaxWords :
       (isPlaying /\ isShowingImage /\ currentWordIndex = k)
         ~> (~isShowingImage /\ currentWordIndex = k + 1)

C11_Witness ==
  /\ lastOp.op = "imageTimer"
  /\ isPlaying
  /\ ~isShowingImage
  /\ ~isPaused
  /\ intervalId = "live"
  /\ imageTimers = 0
  /\ currentWordIndex = 2

timerOps ==
  {"holdTimer", "rewindInterval", "speedUpdate", "stepTimer", "pauseTimer",
   "imageTimer", "autoSave", "fileParsed", "fileFailed"}

\* the release of a press whose hold timer has not fired
tapReleased ==
  /\ lastOp'.op = "stopRewind"
  /\ rewindHoldTimeout = "live"
  /\ isRewinding

\* C12: a rewind tap (startRewind, then stopRewind before the hold timer
\* fires) at currentWordIndex = p > 0 leaves currentWordIndex = p - 1 and the
\* orchestrator paused, and no timer resumes playback afterwards.
C12_TapStepsBackPaused ==
  [][/\ (tapReleased /\ lastOp.op = "startRewind") =>
          /\ currentWordIndex > 0
          /\ currentWordIndex' = currentWordIndex - 1
          /\ ~isPlaying'
          /\ isPaused'
     /\ tapReleased =>
          /\ currentWordIndex' = Max(0, currentWordIndex - 1)
          /\ isPlaying' = isPlaying
          /\ ~isRewinding'
          /\ ~wasHoldDown'
          /\ rewindHoldTimeout' = "null"
          /\ rewindIntervalId' = "null"
     /\ (/\ lastOp'.op \in timerOps
         /\ ~isPlaying
         /\ rewindHoldTimeout # "live"
         /\ ~wasHoldDown) =>
          /\ ~isPlaying'
          /\ rewindHoldTimeout' # "live"
          /\ ~wasHoldDown'
    ]_vars

C12_Witness ==
  /\ lastOp = [op |-> "stopRewind", arg |-> 2]
  /\ currentWordIndex = 1
  /\ ~isPlaying
  /\ isPaused
  /\ intervalId = "null"

\* C13: a sustained hold steps currentWordIndex back one token per tick,
\* never below 0, and playback resumes exactly when the hold is released:
\* no tick of the hold starts playback, and the release of a hold does.
C13_HoldResumesOnRelease ==
  [][/\ lastOp'.op \in {"holdTimer", "rewindInterval"} =>
          /\ currentWordIndex' = Max(0, currentWordIndex - 1)
          /\ isPlaying' = isPlaying
     /\ (lastOp'.op = "stopRewind" /\ wasHoldDown) => isPlaying'
    ]_vars

\* C14: the auto-save interval is active only while playing or
\* auto-scrolling: when neither holds, autoSaveIntervalId is null.
C14_AutoSaveOnlyWhilePlaying ==
  (~isPlaying /\ ~readerAutoScroll) => autoSaveIntervalId = "null"

\* a save that the small tier cannot take: over its quota or over 2 MB
smallTierRefuses(session) ==
  /\ ~lsDisabled
  /\ ~lsFlag
  /\ lsQuota > 0
  /\ (session.size > lsQuota \/ session.size > SizeThreshold)

\* the oldest request is a load and it is being served
loadServed ==
  /\ idbQueue # <<>>
  /\ Head(idbQueue).kind = "load"
  /\ idbQueue' = Tail(idbQueue)

\* C15: a save the small tier refuses (quota error, or size over the
\* threshold) sets the flag and hands the same session to the large tier,
\* whose write stores exactly that session; a loadSession made while the flag
\* is set goes to the large tier without reading the small-tier session key
\* and, served, returns the session stored there.
C15_PromotionToLargeTier ==
  [][/\ (outcome'.op = "saveSession" /\ smallTierRefuses(outcome'.session)) =>
          /\ lsFlag'
          /\ lsSession' = lsSession
          /\ idbQueue' = Append(idbQueue, Request("save", outcome'.session, TRUE))
     /\ (outcome'.op = "saveSettled" /\ outcome'.value = "true") =>
          idbSession' = outcome'.session
     /\ (outcome'.op = "loadSession" /\ ~loadServed /\ ~lsDisabled /\ lsFlag) =>
          /\ outcome'.value = "pending"
          /\ ~outcome'.probed
          /\ idbQueue' = Append(idbQueue, Request("load", NoSession, FALSE))
     /\ (loadServed /\ ~Head(idbQueue).mark) =>
          /\ ~outcome'.probed
          /\ outcome'.returned = "failed" \/ idbSession = NoSession
               \/ (outcome'.value = "session" /\ outcome'.session = idbSession)
    ]_<<vars, storeVars>>

C15_Witness ==
  /\ outcome.op = "loadSession"
  /\ outcome.value = "session"
  /\ ~outcome.probed
  /\ lsFlag
  /\ lsSession = NoSession
  /\ outcome.session.size > lsQuota
  /\ outcome.session.size <= SizeThreshold
  /\ outcome.session = idbSession

\* C16: no call of the persistence layer throws to its caller.
C16_NothingThrown == outcome.value # "throws"

\* C17: when the small tier has failed and the large tier fails too, the
\* caller of saveSession has received the boolean false.
C17_FailureReturnsFalse ==
  (outcome.op = "saveSettled" /\ outcome.value = "false" /\ outcome.probed)
    => outcome.returned = "false"

pendingSaves == { i \in 1..Len(idbQueue) : idbQueue[i].kind = "save" }

\* C18: a save does not begin while another is still pending, and once the
\* saves have completed the stored record is the session of the last one.
C18_SavesSerialized ==
  /\ Cardinality(pendingSaves) <= 1
  /\ (outcome.op = "saveSettled" /\ outcome.value = "true" /\ pendingSaves = {})
       => idbSession = outcome.session

\* C19: the stored session never contains chapter htmlContent, in either tier.
C19_NoHtmlStored == ~lsSession.html /\ ~idbSession.html

\* C20: once clearSession has returned true the large tier holds no session
\* (so that hasSession and loadSession cannot find one there).
C20_ClearEmptiesBothTiers ==
  (outcome.op = "clearSession" /\ outcome.value = "true")
    => idbSession = NoSession

\* a structurer has returned its structure
structured ==
  /\ libResult.done
  /\ libCall.fn \in {"parsePDFWithStructure", "parseEPUBWithStructure"}

\* C23: the chapters' wordCounts sum to the length of the word stream
\* returned with them, and the last chapter ends at that length.
C23_ChaptersCoverWords ==
  structured =>
    LET chapters == libResult.value.contentStructure.chapters IN
    /\ SumCounts(chapters, Len(chapters)) = libResult.value.words
    /\ chapters # <<>> => chapters[Len(chapters)].endWordIndex = libResult.value.words

\* C24: the first chapter starts at 0, each chapter ends where the next one
\* starts, no chapter ends before it starts, and wordCount is the length of
\* the chapter's interval.
C24_ChaptersContiguous ==
  structured =>
    LET chapters == libResult.value.contentStructure.chapters IN
    \A i \in 1..Len(chapters) :
      /\ chapters[i].startWordIndex <= chapters[i].endWordIndex
      /\ chapters[i].wordCount = chapters[i].endWordIndex - chapters[i].startWordIndex
      /\ i = 1 => chapters[i].startWordIndex = 0
      /\ i < Len(chapters) => chapters[i].endWordIndex = chapters[i + 1].startWordIndex

C24_Witness ==
  /\ libResult.done
  /\ libCall.fn = "parsePDFWithStructure"
  /\ libCall.input.outline = <<1, 2>>
  /\ LET chapters == libResult.value.contentStructure.chapters IN
     /\ Len(chapters) = 2
     /\ chapters[1].wordCount > 0
     /\ chapters[2].startWordIndex = chapters[1].wordCount
     /\ chapters[2].wordCount > 0

\* C25: the TOC has one entry per chapter, in chapter order, and each entry
\* carries its chapter's startWordIndex and wordCount.
C25_TocMirrorsChapters ==
  structured =>
    LET chapters == libResult.value.contentStructure.chapters
        toc == libResult.value.contentStructure.toc
    IN /\ Len(toc) = Len(chapters)
       /\ \A i \in 1..Len(toc) :
            /\ toc[i].chapterIndex = i - 1
            /\ {"startWordIndex", "wordCount"} \subseteq DOMAIN toc[i]
            /\ toc[i].startWordIndex = chapters[i].startWordIndex
            /\ toc[i].wordCount = chapters[i].wordCount

\* C26: an EPUB of k spine sections yields k chapters in spine order, and a
\* section without an outline entry is titled 'Chapter N'.
C26_NoSectionDropped ==
  (libResult.done /\ libCall.fn = "parseEPUBWithStructure") =>
    LET chapters == libResult.value.extracted IN
    /\ Len(chapters) = Len(libCall.input)
    /\ Len(libResult.value.contentStructure.chapters) = Len(libCall.input)
    /\ \A i \in 1..Len(chapters) :
         /\ chapters[i].spineIndex = i
         /\ ~libCall.input[i].inToc => chapters[i].title = <<"Chapter", i>>

\* the number of break tokens in a token sequence
breaksIn(w) == Cardinality({ i \in 1..Len(w) : w[i] = BreakToken })

\* the number of lines of a text that hold a word
paragraphsIn(text) ==
  Cardinality({ i \in 1..Len(split(text, "\n")) :
                  \E j \in 1..Len(split(text, "\n")[i]) :
                    split(text, "\n")[i][j] # " " })

\* C27: the tokens of parseText never hold two adjacent break tokens, never
\* begin or end with one, every break token is followed by a token carrying
\* the first-after-break marker, and there is exactly one break token
\* between two consecutive paragraphs however many blank lines separate them.
C27_BreakTokensWellPlaced ==
  (libResult.done /\ libCall.fn = "parseText") =>
    LET w == libResult.value IN
    /\ \A i \in 1..Len(w) :
         w[i] = BreakToken =>
           /\ i > 1
           /\ i < Len(w)
           /\ w[i + 1] # BreakToken
           /\ Head(w[i + 1]) = BreakMarker
    /\ breaksIn(w) = IF paragraphsIn(libCall.input) = 0 THEN 0
                     ELSE paragraphsIn(libCall.input) - 1

C27_Witness ==
  /\ libResult.done
  /\ libCall.fn = "parseText"
  /\ libCall.input = <<"a", "\n", "\n", "\n", "\n", "a">>
  /\ libResult.value = << <<"a">>, BreakToken, <<BreakMarker, "a">> >>

\* C28: for a chapter that holds words and a percentage in 0..100, the word
\* index returned lies in [startWordIndex, endWordIndex).
C28_ScrollIndexInChapter ==
  (/\ libResult.done
   /\ libCall.fn = "getWordIndexFromScroll"
   /\ libCall.input.chapter.startWordIndex < libCall.input.chapter.endWordIndex)
  => /\ libResult.value >= libCall.input.chapter.startWordIndex
     /\ libResult.value < libCall.input.chapter.endWordIndex

\* the position was computed for word index 225 of the 100/150/50 document
scenarioDone ==
  /\ libResult.done
  /\ libCall.fn = "position"
  /\ libCall.input = 225

\* C29 as stated: index 225 lies in chapter 2 (0-based), 50% into it.
C29_ScenarioAsStated ==
  scenarioDone =>
    /\ libResult.value.chapterIndex = 2
    /\ libResult.value.scroll = <<50, 1>>

\* C29, amended: index 225 lies in chapter 1 (0-based), which spans
\* [100, 250), and is 125/150 of the way into it, 250/3 percent.
C29_ScenarioAsComputed ==
  scenarioDone =>
    /\ libResult.value.chapterIndex = 1
    /\ libResult.value.scroll = <<250, 3>>

C29_Witness ==
  /\ scenarioDone
  /\ ScenarioStructure.chapters[2].startWordIndex = 100
  /\ ScenarioStructure.chapters[2].endWordIndex = 250
  /\ libResult.value.chapterIndex = 1

\* C30: with wordsPerMinute <= 0 getWordDelay returns the 200 ms fallback,
\* whatever the token, a missing or an empty one included.
C30_FallbackForBadSpeed ==
  (/\ libResult.done
   /\ libCall.fn = "getWordDelay"
   /\ libCall.input.wordsPerMinute <= 0)
  => libResult.value = Finite(FallbackDelay, 1)

\* the fields a restored session is written to
restoredFields ==
  <<words, currentWordIndex, readingMode, currentChapterIndex,
    readerScrollPosition, contentStructure, pauseAfterWords, showImagesInRSVP>>

\* C21: when loadSavedSession returns false (no session, a position-only
\* session, or an empty text), the document, the position, the mode and the
\* settings in memory are what they were: nothing of the session is taken.
C21_RejectedSessionChangesNothing ==
  [][(lastOp'.op = "loadSavedSession" /\ lastOp'.arg = Null)
       => UNCHANGED restoredFields]_vars

C21_Witness ==
  /\ lastOp = [op |-> "loadSavedSession", arg |-> Null]
  /\ mounted
  /\ words = DemoWords
  /\ contentStructure = NoStructure
  /\ currentWordIndex = 0
  /\ readingMode = "rsvp"
  /\ pauseAfterWords = 0
  /\ showImagesInRSVP

\* the fields a parsed document is installed in
documentFields ==
  <<words, contentStructure, currentWordIndex, currentChapterIndex,
    readerScrollPosition>>

\* C22: neither the start of handleFileSelect nor the rejection of parseFile
\* installs anything: the document and the positions stay as they were, and
\* the rejection leaves the error message in loadingMessage.
C22_FailedLoadInstallsNothing ==
  [][/\ lastOp'.op \in {"handleFileSelect", "fileFailed"} => UNCHANGED documentFields
     /\ lastOp'.op = "fileFailed" => (loadingMessage' = "error" /\ ~isLoadingFile')
    ]_vars

C22_Witness ==
  /\ lastOp.op = "fileFailed"
  /\ loadingMessage = "error"
  /\ contentStructure # NoStructure
  /\ currentWordIndex > 0

\* getWordDelay has returned for a string that holds characters, at a
\* positive speed
delayDone ==
  /\ libResult.done
  /\ libCall.fn = "getWordDelay"
  /\ libCall.input.word.defined
  /\ libCall.input.word.chars # <<>>
  /\ libCall.input.wordsPerMinute > 0

\* x < y for two finite delays
lessDelay(x, y) == x.value[1] * y.value[2] < y.value[1] * x.value[2]

\* the delay of a word of n letters under the settings of the call
delayOfLength(n) ==
  getWordDelay(Word(letters(n)), libCall.input.wordsPerMinute,
               libCall.input.pauseOnPunctuation,
               libCall.input.punctuationMultiplier,
               libCall.input.wordLengthWPMMultiplier,
               libCall.input.lineBreakMultiplier)

\* C31: with wordLengthWPMMultiplier > 0, a 13-letter word is shown longer
\* than a 12-letter word, and a 12-letter word longer than an 11-letter word.
C31_DelayGrowsWithLength ==
  (/\ delayDone
   /\ libCall.input.wordLengthWPMMultiplier > 0
   /\ libCall.input.word = Word(letters(12)))
  => /\ lessDelay(libResult.value, delayOfLength(13))
     /\ lessDelay(delayOfLength(11), libResult.value)

\* the product the delay is claimed to be, as <<numerator, denominator>>
delayProduct(in) ==
  LET marked == Head(in.word.chars) = BreakMarker
      len == IF marked THEN Len(in.word.chars) - 1 ELSE Len(in.word.chars)
      last == IF len = 0 THEN "" ELSE in.word.chars[Len(in.word.chars)]
      first == IF marked THEN <<3, 2>> ELSE <<1, 1>>
      long == IF len >= 12 /\ in.wordLengthWPMMultiplier > 0
              THEN <<100 + in.wordLengthWPMMultiplier * (len - 12), 100>>
              ELSE <<1, 1>>
      punct == IF ~in.pauseOnPunctuation THEN <<1, 1>>
               ELSE IF last \in SentenceEnd THEN <<in.punctuationMultiplier, 1>>
               ELSE IF last = "," THEN <<3, 2>>
               ELSE <<1, 1>>
  IN IF in.word.chars = BreakToken
     THEN Frac(60000 * in.lineBreakMultiplier, in.wordsPerMinute)
     ELSE Frac(60000 * first[1] * long[1] * punct[1],
               in.wordsPerMinute * first[2] * long[2] * punct[2])

\* C32: at a positive speed the delay of a token is the base 60000/wpm times
\* the first-after-break, length and punctuation factors, and the delay of a
\* break token is the base times lineBreakMultiplier; at 300 wpm a plain
\* word gives 200 ms and a word ending in '.' gives 400 ms.
C32_DelayIsProduct ==
  delayDone =>
    /\ libResult.value.kind = "finite"
    /\ libResult.value.value = delayProduct(libCall.input)
    /\ (libCall.input.wordsPerMinute = 300 /\ libCall.input.word = Word(<<"a">>))
         => libResult.value.value = <<200, 1>>
    /\ (/\ libCall.input.wordsPerMinute = 300
        /\ libCall.input.word = Word(<<"a", ".">>)
        /\ libCall.input.pauseOnPunctuation)
         => libResult.value.value = <<400, 1>>

C32_Witness ==
  /\ delayDone
  /\ libCall.input.word = Word(<<BreakMarker>> \o letters(13))
  /\ libCall.input.wordLengthWPMMultiplier = 10
  /\ libResult.value.value = <<330, 1>>

\* the callbacks of the timers that playback sets
PlaybackTimers == {"stepTimer", "pauseTimer", "imageTimer"}

C34_RewindExcludesPlayback ==
  rewindIntervalId = "live" =>
    /\ ~isPlaying
    /\ intervalId # "live"
    /\ stepOrphans = 0

\* playback runs over a document without image markers, periodic pauses off
plainPlayback ==
  /\ isPlaying
  /\ words > 0
  /\ currentWordIndex < words
  /\ contentStructure.images = <<>>
  /\ pauseAfterWords = 0

\* C35: uninterrupted playback without images and periodic pauses shows the
\* last token and then reaches the stopped state: isPlaying false, no step
\* timer pending, the auto-save timer cancelled.
C35_PlaybackEndsStopped ==
  plainPlayback
    ~> (/\ currentWordIndex = words
        /\ ~isPlaying
        /\ intervalId # "live"
        /\ stepOrphans = 0
        /\ autoSaveIntervalId = "null")

\* loadSession, called with the large-tier flag set, has completed without
\* a read error, while the only session any save has stored is the one in
\* localStorage: every later save went to IndexedDB and failed there
loadAfterFailedSaves ==
  /\ outcome.op = "loadSession"
  /\ outcome.value \in {"session", "null"}
  /\ outcome.returned = "none"
  /\ ~outcome.probed
  /\ lsSession # NoSession
  /\ idbSession = NoSession

\* C36: after saves of which the most recent failed, loadSession returns
\* the session of the last successful save.
C36_FailedSaveKeepsLast ==
  loadAfterFailedSaves =>
    /\ outcome.value = "session"
    /\ outcome.session = lsSession

\* C37: whenever a document structure is installed, its last chapter ends
\* at words.length.
C37_StructureDescribesWords ==
  contentStructure.present =>
    /\ contentStructure.chapters # <<>>
    /\ contentStructure.chapters[Len(contentStructure.chapters)].endWordIndex = words

\* a structurer has returned a document
documentParsed ==
  /\ libResult.done
  /\ libCall.fn \in {"parseEPUBWithStructure", "parsePDFWithStructure"}

\* C38: for every document a structurer returns, parsing the text it
\* returns, which is the text a session stores and loadSavedSession parses,
\* yields exactly the tokens the structurer returned.
C38_RestoreReproducesWords ==
  documentParsed => parseText(libResult.value.text) = libResult.value.tokens

\* the chapter selected, once the mode has just been switched to reader
selectedChapter == contentStructure.chapters[currentChapterIndex + 1]

\* C39: immediately after a switch to reader mode from position p, the
\* selected chapter contains p (startWordIndex <= p <= endWordIndex) and
\* readerScrollPosition lies in 0..100.
C39_SwitchSelectsChapterOfPosition ==
  (lastOp.op = "switchReadingMode" /\ readingMode = "reader") =>
    /\ selectedChapter.startWordIndex <= currentWordIndex
    /\ currentWordIndex <= selectedChapter.endWordIndex
    /\ readerScrollPosition[1] >= 0
    /\ readerScrollPosition[1] <= 100 * readerScrollPosition[2]

\* C40: ArrowLeft lowers currentWordIndex by exactly one whenever it is
\* greater than 0, and ArrowRight raises it by exactly one whenever it is
\* less than words.length.
C40_ArrowsStepByOne ==
  [][/\ (lastOp'.op = "ArrowLeft" /\ currentWordIndex > 0)
          => currentWordIndex' = currentWordIndex - 1
     /\ (lastOp'.op = "ArrowRight" /\ currentWordIndex < words)
          => currentWordIndex' = currentWordIndex + 1]_vars

====
